---- MODULE Spec2Model ----
(***************************************************************************)
(* Sky View: the weather page of data-tamer2410/ds-sky-view.               *)
(*                                                                         *)
(* sky_view/functionality.py : formated_weather_data,                      *)
(*   parse_history_response, parse_current_response, get_weather_data,     *)
(*   predict.                                                              *)
(* sky_view/main.py : toggle_logic and the button handler of main().       *)
(*                                                                         *)
(* Numbers.  Every JSON number is kept as an integer count of thousandths  *)
(* (1.25 mm is 1250).  The inputs used are multiples of 125 thousandths,   *)
(* which are exact binary floats, so Python's round-half-even formatting   *)
(* of the float and the decimal rounding below agree on them.              *)
(*                                                                         *)
(* Dictionaries are functions whose domain is a set of strings; a Python   *)
(* exception is a result record whose exc field names the exception.       *)
(***************************************************************************)
EXTENDS Integers, Sequences, FiniteSets, TLC

VARIABLES
    color_today,        \* st.session_state["color_today"]
    color_tomorrow,     \* st.session_state["color_tomorrow"]
    toggle_state,       \* st.session_state["toggle_state"]
    pc,                 \* where the button handler of main() stands
    location,           \* main's location, handed to get_weather_data
    for_predict,        \* the for_predict argument of the running get_weather_data
    format_flag,        \* main's for_predict, computed at main.py:101
    now_date,           \* get_weather_data's now_date, a day number
    response_place,     \* get_weather_data's <<response_location, response_country>>
    features,           \* get_weather_data's local list of rows
    calls,              \* the HTTP requests of the current press, in order, with answers
    returned,           \* the tuple get_weather_data returned, <<>> before it returns
    weather_data,       \* main's weather_data
    raised,             \* the exception that ended the press, "none" otherwise
    message,            \* what the page shows for the press
    archive,            \* the provider's history archive: the kind of day of each date
    response,           \* parse_history_response on its own: the response argument
    p_for_predict,      \* parse_history_response on its own: the for_predict argument
    p_result,           \* parse_history_response on its own: its outcome
    data,               \* formated_weather_data on its own: the data argument
    f_for_predict,      \* formated_weather_data on its own: the for_predict argument
    f_result            \* formated_weather_data on its own: its outcome

session_vars == <<color_today, color_tomorrow, toggle_state>>
press_vars == <<pc, location, for_predict, format_flag, now_date, response_place,
                features, calls, returned, weather_data, raised, message>>
parse_vars == <<response, p_for_predict, p_result>>
format_vars == <<data, f_for_predict, f_result>>
vars == <<session_vars, press_vars, archive, parse_vars, format_vars>>

(***************************************************************************)
(* Results of a Python call: a returned value or a raised exception.       *)
(***************************************************************************)
Return(v) == [exc |-> "none", value |-> v]
Raise(e) == [exc |-> e, value |-> <<>>]
NotRun == [exc |-> "not run", value |-> <<>>]

(***************************************************************************)
(* dict helpers.                                                           *)
(***************************************************************************)
Update(d, u) == u @@ d
Del(d, ks) == [k \in (DOMAIN d) \ ks |-> d[k]]

(***************************************************************************)
(* Python number formatting: f"{v:.1f}", f"{v:.2f}", f"{v:.0f}", f"{v:.0%}" *)
(***************************************************************************)
Digit(n) ==
    CASE n = 0 -> "0" [] n = 1 -> "1" [] n = 2 -> "2" [] n = 3 -> "3"
      [] n = 4 -> "4" [] n = 5 -> "5" [] n = 6 -> "6" [] n = 7 -> "7"
      [] n = 8 -> "8" [] n = 9 -> "9"

RECURSIVE NatStr(_)
NatStr(n) == IF n < 10 THEN Digit(n) ELSE NatStr(n \div 10) \o Digit(n % 10)

RECURSIVE ZeroPad(_, _)
ZeroPad(n, width) ==
    IF width = 0 THEN "" ELSE ZeroPad(n \div 10, width - 1) \o Digit(n % 10)

Pow10(n) == IF n = 0 THEN 1 ELSE IF n = 1 THEN 10 ELSE IF n = 2 THEN 100 ELSE 1000

Abs(v) == IF v < 0 THEN 0 - v ELSE v

\* a / unit rounded to the nearest integer, ties to even (a >= 0)
RoundHalfEven(a, unit) ==
    LET q == a \div unit
        r == a % unit
    IN  IF 2 * r > unit THEN q + 1
        ELSE IF 2 * r < unit THEN q
        ELSE IF q % 2 = 0 THEN q ELSE q + 1

\* f"{v:.<decimals>f}" of the number v thousandths; the sign of a negative
\* number is kept even when it rounds to zero ("-0.0")
FormatFixed(v, decimals) ==
    LET scaled == RoundHalfEven(Abs(v), Pow10(3 - decimals))
        whole == scaled \div Pow10(decimals)
        frac == scaled % Pow10(decimals)
    IN  (IF v < 0 THEN "-" ELSE "") \o NatStr(whole)
        \o (IF decimals > 0 THEN "." \o ZeroPad(frac, decimals) ELSE "")

\* f"{v:.0%}": the number times 100, no decimals, then "%"
FormatPercent(v) == FormatFixed(v * 100, 0) \o "%"

(***************************************************************************)
(* formated_weather_data                                                   *)
(***************************************************************************)
\* the ten fields of the first data.update: decimals and unit suffix
UnitFormat ==
    [MinTemp |-> <<1, "°C">>, MaxTemp |-> <<1, "°C">>,
     Rainfall |-> <<2, "mm">>, WindGustSpeed |-> <<1, "kph">>,
     WindSpeed9am |-> <<1, "kph">>, WindSpeed3pm |-> <<1, "kph">>,
     Pressure9am |-> <<1, "hPa">>, Pressure3pm |-> <<1, "hPa">>,
     Temp9am |-> <<1, "°C">>, Temp3pm |-> <<1, "°C">>]

PercentFields == {"Humidity9am", "Humidity3pm", "Cloud9am", "Cloud3pm"}

ConditionFields == {"text", "icon"}

\* line 17 left out
ClampRainfallOff(v) == v

\* line 17: 0.00 if data["Rainfall"] < 0 else data["Rainfall"]
ClampRainfall(v) == IF v < 0 THEN 0 ELSE v

\* lines 18-31: the first data.update
FormatUnits(d) ==
    Update(d, [k \in DOMAIN UnitFormat |->
                  FormatFixed(d[k], UnitFormat[k][1]) \o UnitFormat[k][2]])

\* line 33
FormatPredict(d) == Update(d, [k \in {"RainToday"} |-> FormatPercent(d["RainToday"])])

\* lines 35-42: the second data.update
FormatHumidityCloud(d) ==
    Update(d, [k \in PercentFields |-> FormatFixed(d[k], 0) \o "%"])

\* lines 43-44 with the second del left out
DropConditionKeepsIcon(d) == Del(d, {"text"})

\* lines 43-44: del data["text"]; del data["icon"]
DropCondition(d) == Del(d, ConditionFields)

formated_weather_data(d, forPredict) ==
    IF "Rainfall" \notin DOMAIN d THEN Raise("KeyError")
    ELSE LET d1 == Update(d, [k \in {"Rainfall"} |-> ClampRainfall(d["Rainfall"])])
         IN  IF ~(DOMAIN UnitFormat \subseteq DOMAIN d1) THEN Raise("KeyError")
             ELSE LET d2 == FormatUnits(d1)
                  IN  IF forPredict
                      THEN IF "RainToday" \notin DOMAIN d2 THEN Raise("KeyError")
                           ELSE Return(FormatPredict(d2))
                      ELSE IF ~(PercentFields \subseteq DOMAIN d2) THEN Raise("KeyError")
                           ELSE IF ~(ConditionFields \subseteq DOMAIN d2)
                                THEN Raise("KeyError")
                                ELSE Return(DropCondition(FormatHumidityCloud(d2)))

(***************************************************************************)
(* parse_history_response                                                  *)
(***************************************************************************)
\* the Python number n, in thousandths
Num(n) == n * 1000

day_feature_names == {"maxtemp_c", "mintemp_c", "totalprecip_mm"}

hour_feature_names ==
    {"wind_kph", "pressure_mb", "temp_c", "wind_dir", "humidity", "cloud"}

\* line 62: [time(9, 0), time(15, 0)]
need_times == {<<9, 0>>, <<15, 0>>}

\* line 65: datetime.strptime(hour["time"], "%Y-%m-%d %H:%M").time(); the time
\* string "YYYY-MM-DD HH:MM" is kept as its date part and its two numbers
Strptime(t) == <<t.hh, t.mm>>

\* line 67: iter_time.strftime("%I%p"), the 12-hour clock hour and AM/PM
Strftime_I_p(tm) ==
    LET h12 == IF tm[1] % 12 = 0 THEN 12 ELSE tm[1] % 12
    IN  ZeroPad(h12, 2) \o (IF tm[1] < 12 THEN "AM" ELSE "PM")

\* line 66 comparing the hour alone
InNeedTimesHourOnly(iter_time) == iter_time[1] \in {9, 15}

\* line 66: iter_time in need_times
InNeedTimes(iter_time) == iter_time \in need_times

\* line 68: {f"{k}{str_time}": hour[k] for k in hour_feature_names}
HourFeatures(hour, str_time) ==
    [key \in {k \o str_time : k \in hour_feature_names} |->
        hour[CHOOSE k \in hour_feature_names : k \o str_time = key]]

\* line 68: parse_dict.update(...): a later entry overwrites an earlier one
MergeHour(parse_dict, new) == Update(parse_dict, new)

\* lines 63-68: one iteration of the loop over forecast_data["hour"]
HourStep(acc, hour) ==
    IF acc.exc # "none" THEN acc
    ELSE IF "gust_kph" \notin DOMAIN hour \/ "time" \notin DOMAIN hour
    THEN [acc EXCEPT !.exc = "KeyError"]
    ELSE LET iter_time == Strptime(hour.time)
             gusts == Append(acc.all_wind_gust, hour.gust_kph)
         IN  IF InNeedTimes(iter_time)
             THEN IF ~(hour_feature_names \subseteq DOMAIN hour)
                  THEN [acc EXCEPT !.exc = "KeyError"]
                  ELSE [exc |-> "none",
                        parse_dict |->
                            MergeHour(acc.parse_dict,
                                      HourFeatures(hour, Strftime_I_p(iter_time))),
                        all_wind_gust |-> gusts]
             ELSE [acc EXCEPT !.all_wind_gust = gusts]

RECURSIVE ScanHours(_, _, _)
\* lines 61-68: the loop, over hours[i..]
ScanHours(hours, i, acc) ==
    IF i > Len(hours) THEN acc ELSE ScanHours(hours, i + 1, HourStep(acc, hours[i]))

RECURSIVE MaxOf(_)
\* line 71: max(all_wind_gust) of a non-empty list
MaxOf(s) ==
    IF Len(s) = 1 THEN s[1]
    ELSE LET m == MaxOf(Tail(s)) IN IF s[1] >= m THEN s[1] ELSE m

\* line 72 with != in place of >
RainTodayFlagNonZero(totalprecip_mm) == IF totalprecip_mm # 0 THEN Num(1) ELSE Num(0)

\* line 72: 1 if parse_dict["totalprecip_mm"] > 0 else 0
RainTodayFlag(totalprecip_mm) == IF totalprecip_mm > 0 THEN Num(1) ELSE Num(0)

\* lines 76-94
feature_names_encoder ==
    [maxtemp_c |-> "MaxTemp", mintemp_c |-> "MinTemp", totalprecip_mm |-> "Rainfall",
     max_gust |-> "WindGustSpeed",
     wind_kph09AM |-> "WindSpeed9am", wind_kph03PM |-> "WindSpeed3pm",
     pressure_mb09AM |-> "Pressure9am", pressure_mb03PM |-> "Pressure3pm",
     temp_c09AM |-> "Temp9am", temp_c03PM |-> "Temp3pm",
     wind_dir09AM |-> "WindDir9am", wind_dir03PM |-> "WindDir3pm",
     humidity09AM |-> "Humidity9am", humidity03PM |-> "Humidity3pm",
     cloud09AM |-> "Cloud9am", cloud03PM |-> "Cloud3pm",
     rain_today |-> "RainToday"]

\* line 95: {feature_names_encoder[k]: v for k, v in parse_dict.items()}
Rename(parse_dict) ==
    [key \in {feature_names_encoder[k] : k \in DOMAIN parse_dict} |->
        parse_dict[CHOOSE k \in DOMAIN parse_dict : feature_names_encoder[k] = key]]

\* line 100: "Yes" if parse_dict["RainToday"] == 1 else "No"
YesNo(rain_today) == IF rain_today = Num(1) THEN "Yes" ELSE "No"

\* lines 75-100: the display variant
DisplayVariant(parse_dict, day) ==
    IF ~(DOMAIN parse_dict \subseteq DOMAIN feature_names_encoder) THEN Raise("KeyError")
    ELSE IF "condition" \notin DOMAIN day THEN Raise("KeyError")
    ELSE IF ~(ConditionFields \subseteq DOMAIN day.condition) THEN Raise("KeyError")
    ELSE LET renamed == Rename(parse_dict)
             withCondition ==
                 Update(renamed, [k \in ConditionFields |-> day.condition[k]])
         IN  Return(Update(withCondition,
                           [k \in {"RainToday"} |-> YesNo(withCondition["RainToday"])]))

parse_history_response(resp, forPredict) ==
    IF "forecast" \notin DOMAIN resp THEN Raise("KeyError")
    ELSE IF "forecastday" \notin DOMAIN resp.forecast THEN Raise("KeyError")
    ELSE IF Len(resp.forecast.forecastday) = 0 THEN Raise("IndexError")
    ELSE LET forecast_data == resp.forecast.forecastday[1]
         IN  IF "day" \notin DOMAIN forecast_data THEN Raise("KeyError")
             ELSE IF ~(day_feature_names \subseteq DOMAIN forecast_data.day)
             THEN Raise("KeyError")
             ELSE IF "hour" \notin DOMAIN forecast_data THEN Raise("KeyError")
             ELSE LET scan ==
                          ScanHours(forecast_data.hour, 1,
                                    [exc |-> "none",
                                     parse_dict |->
                                         [k \in day_feature_names |-> forecast_data.day[k]],
                                     all_wind_gust |-> <<>>])
                  IN  IF scan.exc # "none" THEN Raise(scan.exc)
                      ELSE IF Len(scan.all_wind_gust) = 0 THEN Raise("ValueError")
                      ELSE LET parse_dict ==
                                   Update(scan.parse_dict,
                                          [k \in {"max_gust", "rain_today"} |->
                                              IF k = "max_gust"
                                              THEN MaxOf(scan.all_wind_gust)
                                              ELSE RainTodayFlag(
                                                       scan.parse_dict["totalprecip_mm"])])
                           IN  IF forPredict THEN Return(parse_dict)
                               ELSE DisplayVariant(parse_dict, forecast_data.day)

(***************************************************************************)
(* The weather provider's history documents.                               *)
(***************************************************************************)
MaxHours == 3

WindDirs == <<"N", "NE", "E", "SE", "S", "SW", "W", "NW">>

\* one entry of forecastday[0].hour; tag makes the values of distinct entries
\* distinct, so that the entry a parsed field came from can be told
Hour(hh, mm, tag) ==
    [time |-> [date |-> "2024-03-02", hh |-> hh, mm |-> mm],
     gust_kph |-> Num(20) + tag * 125,
     wind_kph |-> Num(10) + tag * 125,
     pressure_mb |-> Num(1000) + tag * 125,
     temp_c |-> Num(15) + tag * 125,
     wind_dir |-> WindDirs[tag],
     humidity |-> Num(50 + tag),
     cloud |-> Num(10 * tag)]

HourWithout(hour, field) == [k \in (DOMAIN hour) \ {field} |-> hour[k]]

Day(totalprecip_mm) ==
    [maxtemp_c |-> Num(25) + 125, mintemp_c |-> Num(12) + 375,
     totalprecip_mm |-> totalprecip_mm,
     condition |-> [text |-> "Sunny", icon |-> "//cdn.weatherapi.com/113.png"]]

HistoryResponse(day, hours) ==
    [forecast |-> [forecastday |-> <<[date |-> "2024-03-02", day |-> day, hour |-> hours]>>]]

PrecipValues == {0 - 500, 0 - 125, 0, 125, 1250}

\* hourly entries: 03:00, 09:00 twice, 15:00 twice, 21:00, 09:30, and two
\* entries that lack a field
HourEntries ==
    {Hour(3, 0, 1), Hour(9, 0, 2), Hour(9, 0, 3), Hour(15, 0, 4), Hour(15, 0, 5),
     Hour(21, 0, 8), Hour(9, 30, 7),
     HourWithout(Hour(9, 0, 6), "wind_kph"), HourWithout(Hour(10, 0, 6), "gust_kph")}

DayValues ==
    {Day(p) : p \in PrecipValues}
    \cup {HourWithout(Day(125), "totalprecip_mm"), HourWithout(Day(125), "condition")}

HourSeries == UNION {[1..n -> HourEntries] : n \in 0..MaxHours}

HistoryResponses == {HistoryResponse(d, h) : d \in DayValues, h \in HourSeries}

(***************************************************************************)
(* Records handed to formated_weather_data.                                *)
(***************************************************************************)
RainfallValues == {0 - 1250, 0 - 500, 0 - 125, 0, 125, 375, 500, 1250, 12625}

TempValues == {Num(5) + 500, Num(0) - 3250}

\* the eleven fields of a prediction (predict()'s JSON answer)
PredictionRecord(rainfall, temp, rain_probability) ==
    [MinTemp |-> temp, MaxTemp |-> temp + Num(8), Rainfall |-> rainfall,
     WindGustSpeed |-> Num(35) + 125, WindSpeed9am |-> Num(11), WindSpeed3pm |-> Num(17),
     Pressure9am |-> Num(1015) + 250, Pressure3pm |-> Num(1013),
     Temp9am |-> temp + Num(3), Temp3pm |-> temp + Num(7),
     RainToday |-> rain_probability]

\* a record shaped like parse_history_response's display variant
DisplayRecord(rainfall, temp) ==
    Update(PredictionRecord(rainfall, temp, 0),
           [WindDir9am |-> "N", WindDir3pm |-> "SW",
            Humidity9am |-> Num(65), Humidity3pm |-> Num(48) + 500,
            Cloud9am |-> Num(0), Cloud3pm |-> Num(100),
            RainToday |-> IF rainfall > 0 THEN "Yes" ELSE "No",
            text |-> "Sunny", icon |-> "//cdn.weatherapi.com/113.png"])

\* the calls of formated_weather_data tried: every record with the flag that fits
\* its RainToday (a number is formatted with .0%, which a "Yes"/"No" string
\* rejects with ValueError before anything is returned), and the prediction
\* records also with for_predict=False
FormatInputs ==
    UNION {{[data |-> PredictionRecord(r, t, 750), for_predict |-> TRUE],
            [data |-> PredictionRecord(r, t, 125), for_predict |-> TRUE],
            [data |-> PredictionRecord(r, t, 750), for_predict |-> FALSE],
            [data |-> Del(PredictionRecord(r, t, 750), {"Rainfall"}), for_predict |-> TRUE],
            [data |-> Del(PredictionRecord(r, t, 750), {"RainToday"}), for_predict |-> TRUE],
            [data |-> DisplayRecord(r, t), for_predict |-> FALSE],
            [data |-> Del(DisplayRecord(r, t), {"WindSpeed9am", "Humidity9am"}),
             for_predict |-> FALSE],
            [data |-> Del(DisplayRecord(r, t), {"icon"}), for_predict |-> FALSE]} :
           r \in RainfallValues, t \in TempValues}

(***************************************************************************)
(* Dates.  A date is a day number counted from 2024-01-01 (day 0);         *)
(* timedelta(days=n) is integer addition.                                  *)
(***************************************************************************)
IsLeap(y) == (y % 4 = 0 /\ y % 100 # 0) \/ y % 400 = 0

DaysInMonth(y, m) ==
    IF m = 2 THEN (IF IsLeap(y) THEN 29 ELSE 28)
    ELSE IF m \in {4, 6, 9, 11} THEN 30 ELSE 31

RECURSIVE CivilFrom(_, _, _)
\* the date d days after the first of month m of year y, as <<year, month, day>>
CivilFrom(y, m, d) ==
    IF d < DaysInMonth(y, m) THEN <<y, m, d + 1>>
    ELSE CivilFrom(IF m = 12 THEN y + 1 ELSE y, IF m = 12 THEN 1 ELSE m + 1,
                   d - DaysInMonth(y, m))

\* date.strftime("%Y-%m-%d")
Strftime_Y_m_d(n) ==
    LET c == CivilFrom(2024, 1, n)
    IN  ZeroPad(c[1], 4) \o "-" \o ZeroPad(c[2], 2) \o "-" \o ZeroPad(c[3], 2)

\* the first local date the clock shows (2024-03-02: the seven days before it
\* cross the end of February of a leap year)
FirstToday == 61

\* the local dates datetime.now(tz).date() can give
NowDates == {FirstToday, FirstToday + 4}

(***************************************************************************)
(* The HTTP answers of the weather provider and the prediction service.    *)
(* An answer is a status code and a body; the body is JSON or not.         *)
(***************************************************************************)
StatusCodes == {200, 301, 400, 404, 500}

JsonBody(doc) == [is_json |-> TRUE, doc |-> doc]
NotJsonBody == [is_json |-> FALSE, doc |-> <<>>]
ErrorBody == JsonBody([error |-> [code |-> 1006, message |-> "No matching location found."]])

\* response.json()
Json(body) == IF body.is_json THEN Return(body.doc) ELSE Raise("JSONDecodeError")

\* requests' Response.raise_for_status(): HTTPError for 400 <= status < 600
raise_for_status(status_code) ==
    IF 400 <= status_code /\ status_code < 600 THEN "HTTPError" ELSE "none"

\* the status check without its call of raise_for_status
CheckStatusWithoutRaise(status_code) ==
    IF status_code = 400 THEN "LocationNotFoundError" ELSE "none"

\* lines 124-127, 136-139, 170-173: the exception the status check raises
CheckStatus(status_code) ==
    IF status_code = 400 THEN "LocationNotFoundError"
    ELSE IF status_code > 400 THEN raise_for_status(status_code)
    ELSE "none"

CurrentDoc(name, country, tz_id) ==
    [location |-> [name |-> name, country |-> country, tz_id |-> tz_id]]

CurrentDocs ==
    {CurrentDoc("Sydney", "Australia", "Australia/Sydney"),
     CurrentDoc("Paris", "France", "Europe/Paris"),
     CurrentDoc("Sydney", "australia", "Australia/Sydney"),
     CurrentDoc("Perth", "Australia", "Mars/Olympus"),
     CurrentDoc("Lyon", "France", "Mars/Olympus")}

\* what GET current.json can answer
CurrentAnswers ==
    {[status_code |-> s, body |-> JsonBody(d)] : s \in {200, 301}, d \in CurrentDocs}
    \cup {[status_code |-> s, body |-> NotJsonBody] : s \in {200, 301}}
    \cup {[status_code |-> s, body |-> ErrorBody] : s \in StatusCodes}

\* the hourly series of a well-formed day, and one that lacks the 09:00 entry
FullDayHours == <<Hour(3, 0, 1), Hour(9, 0, 2), Hour(15, 0, 4), Hour(21, 0, 8)>>
No9amHours == <<Hour(3, 0, 1), Hour(15, 0, 4), Hour(21, 0, 8)>>

\* the provider's document for day d: its minimum temperature depends on the
\* day, so that the day a row was built from can be told
HistoryDoc(d, totalprecip_mm, hours) ==
    [forecast |->
        [forecastday |->
            <<[date |-> Strftime_Y_m_d(d),
               day |-> [Day(totalprecip_mm) EXCEPT !.mintemp_c = Num(10) + 125 * (d % 16)],
               hour |-> hours]>>]]

\* the provider's document for day d, by the kind of day the archive holds
ArchiveDoc(d, kind) ==
    CASE kind = "rain" -> HistoryDoc(d, 1250, FullDayHours)
      [] kind = "dry" -> HistoryDoc(d, 0, FullDayHours)
      [] kind = "negative" -> HistoryDoc(d, 0 - 500, FullDayHours)
      [] kind = "no9am" -> HistoryDoc(d, 1250, No9amHours)

\* the days a request made on one of NowDates can ask for
ArchiveDays == {t + k : t \in NowDates, k \in (0 - 7)..1}

CompleteKinds == <<"rain", "dry", "negative">>

\* an archive: the complete kinds in turn from offset k on, and the day bad (if
\* it is one of ArchiveDays) without its 09:00 entry
Archive(k, bad) ==
    [d \in ArchiveDays |-> IF d = bad THEN "no9am" ELSE CompleteKinds[((d + k) % 3) + 1]]

\* the archives tried: all days complete, or one incomplete day that is the
\* fourth day of the first window, or the last day of the second
Archives ==
    {Archive(k, bad) : k \in 0..2, bad \in {0 - 1, FirstToday - 3, FirstToday + 4}}

\* what GET history.json?dt=<dt> can answer from archive a
HistoryAnswers(a, dt) ==
    {[status_code |-> s, body |-> JsonBody(ArchiveDoc(d, a[d]))] :
        s \in {200, 301}, d \in {x \in ArchiveDays : Strftime_Y_m_d(x) = dt}}
    \cup {[status_code |-> s, body |-> NotJsonBody] : s \in {200, 301}}
    \cup {[status_code |-> s, body |-> ErrorBody] : s \in StatusCodes}

\* what POST /predict/ can answer
PredictAnswers ==
    {[status_code |-> s, body |-> JsonBody(doc)] :
        s \in {200},
        doc \in {PredictionRecord(125, Num(14), 750),
                 PredictionRecord(0 - 500, Num(14), 125),
                 Del(PredictionRecord(125, Num(14), 750), {"RainToday"})}}
    \cup {[status_code |-> s, body |-> NotJsonBody] : s \in {200}}
    \cup {[status_code |-> s, body |-> ErrorBody] : s \in StatusCodes}

(***************************************************************************)
(* parse_current_response                                                  *)
(***************************************************************************)
\* the zone names pytz.timezone() knows, among those the provider sends
KnownTimezones == {"Australia/Sydney", "Europe/Paris"}

\* today is what datetime.now(tz).date() reads from the clock
parse_current_response(doc, today) ==
    IF "location" \notin DOMAIN doc THEN Raise("KeyError")
    ELSE IF ~({"name", "country", "tz_id"} \subseteq DOMAIN doc.location)
    THEN Raise("KeyError")
    ELSE IF doc.location.tz_id \notin KnownTimezones THEN Raise("UnknownTimeZoneError")
    ELSE Return(<<today, doc.location.name, doc.location.country>>)

(***************************************************************************)
(* get_weather_data                                                        *)
(***************************************************************************)
n_days == 7

\* lines 143-161
features_order ==
    <<"mintemp_c", "maxtemp_c", "totalprecip_mm", "max_gust",
      "wind_kph09AM", "wind_kph03PM", "pressure_mb09AM", "pressure_mb03PM",
      "temp_c09AM", "temp_c03PM", "wind_dir09AM", "wind_dir03PM",
      "humidity09AM", "humidity03PM", "cloud09AM", "cloud03PM", "rain_today">>

\* line 131 comparing without regard to case
CountryAcceptedAnyCase(country) == country \in {"Australia", "australia"}

\* line 131
CountryAccepted(country) == country = "Australia"

\* lines 123-132: the outcome of the current-conditions call
AfterCurrent(answer, today) ==
    IF CheckStatus(answer.status_code) # "none" THEN Raise(CheckStatus(answer.status_code))
    ELSE IF Json(answer.body).exc # "none" THEN Raise(Json(answer.body).exc)
    ELSE LET parsed == parse_current_response(Json(answer.body).value, today)
         IN  IF parsed.exc # "none" THEN parsed
             ELSE IF ~CountryAccepted(parsed.value[3]) THEN Raise("LocationNotFoundError")
             ELSE parsed

\* line 140: the today path's history answer, parsed
AfterTodayHistory(answer) ==
    IF CheckStatus(answer.status_code) # "none" THEN Raise(CheckStatus(answer.status_code))
    ELSE IF Json(answer.body).exc # "none" THEN Raise(Json(answer.body).exc)
    ELSE parse_history_response(Json(answer.body).value, FALSE)

\* line 167 counting back from now_date
HistoryDateNewestFirst(now, i) == now - i

\* lines 164, 167: start_date + timedelta(days=i), for i in range(n_days)
HistoryDate(now, i) == (now - 6) + i

\* line 165
PredictionDate(now) == now + 1

\* line 175: [parse_features[k] for k in features_order]
Row(parse_features) ==
    IF ~({features_order[j] : j \in 1..Len(features_order)} \subseteq DOMAIN parse_features)
    THEN Raise("KeyError")
    ELSE Return([j \in 1..Len(features_order) |-> parse_features[features_order[j]]])

\* lines 169-175 with a failed day skipped instead of raised
LoopBodySkipsFailure(rows, answer) ==
    IF CheckStatus(answer.status_code) # "none" THEN Return(rows)
    ELSE IF Json(answer.body).exc # "none" THEN Return(rows)
    ELSE LET parsed == parse_history_response(Json(answer.body).value, TRUE)
         IN  IF parsed.exc # "none" THEN Return(rows)
             ELSE IF Row(parsed.value).exc # "none" THEN Return(rows)
             ELSE Return(Append(rows, Row(parsed.value).value))

\* lines 169-175: one iteration of the loop, from the answer to the new rows
LoopBody(rows, answer) ==
    IF CheckStatus(answer.status_code) # "none" THEN Raise(CheckStatus(answer.status_code))
    ELSE IF Json(answer.body).exc # "none" THEN Raise(Json(answer.body).exc)
    ELSE LET parsed == parse_history_response(Json(answer.body).value, TRUE)
         IN  IF parsed.exc # "none" THEN parsed
             ELSE IF Row(parsed.value).exc # "none" THEN Row(parsed.value)
             ELSE Return(Append(rows, Row(parsed.value).value))

(***************************************************************************)
(* predict                                                                 *)
(***************************************************************************)
\* lines 182-184
predict(answer) ==
    IF raise_for_status(answer.status_code) # "none"
    THEN Raise(raise_for_status(answer.status_code))
    ELSE Json(answer.body)

(***************************************************************************)
(* main.py: the session state, toggle_logic and the button handler.        *)
(***************************************************************************)
NoSelection == "<None>"

\* the selectbox's value (index=None: nothing selected) or the text typed
Locations == {NoSelection, "  ", "Sydney"}

\* str.strip() on the strings of Locations
Strip(s) == IF s \in {"", " ", "  "} THEN "" ELSE s

\* lines 24, 27 with both branches "green"
FlipKeepsGreen(color) == "green"

\* lines 24, 27: "green" if ... == "red" else "red"
Flip(color) == IF color = "red" THEN "green" ELSE "red"

\* line 86: the else branch, for_predict=True, is taken when color_today is not green
FetchFlag(colorToday) == colorToday # "green"

\* line 101
FormatFlag(colorToday) == colorToday = "red"

LocationNotFoundMessage ==
    "**Location not found. Please enter a valid location in Australia.**"
UnavailableMessage ==
    "**Sorry, the service is temporarily unavailable. Please try again later.**"
SelectMessage == "**Please select a location.**"

\* lines 112-120: the message of the except clause that catches e
ErrorMessage(e) ==
    IF e = "LocationNotFoundError" THEN LocationNotFoundMessage ELSE UnavailableMessage

\* lines 95-111: from weather_data to the formatted record that is written out
Render(wd, colorToday) ==
    IF colorToday = "green" /\ ~(ConditionFields \subseteq DOMAIN wd) THEN Raise("KeyError")
    ELSE formated_weather_data(wd, FormatFlag(colorToday))

\* lines 66-71: the session state of a new session; nothing requested yet
Init ==
    /\ color_today = "green"
    /\ color_tomorrow = "red"
    /\ toggle_state = FALSE
    /\ pc = "idle"
    /\ location = NoSelection
    /\ for_predict = FALSE
    /\ format_flag = FALSE
    /\ now_date = 0
    /\ response_place = <<>>
    /\ features = <<>>
    /\ calls = <<>>
    /\ returned = <<>>
    /\ weather_data = <<>>
    /\ raised = "none"
    /\ message = ""
    /\ archive \in Archives
    /\ response = <<>>
    /\ p_for_predict = FALSE
    /\ p_result = NotRun
    /\ data = <<>>
    /\ f_for_predict = FALSE
    /\ f_result = NotRun

\* the try block is left by exception e: lines 112-120
Fail(e) ==
    /\ raised' = e
    /\ message' = ErrorMessage(e)
    /\ pc' = "idle"
    /\ features' = <<>>
    /\ UNCHANGED <<location, for_predict, format_flag, now_date, response_place,
                   returned, weather_data>>

\* lines 95-111 after the payload wd is in hand
Show(wd) ==
    LET r == Render(wd, color_today)
    IN  IF r.exc # "none"
        THEN /\ raised' = r.exc
             /\ message' = ErrorMessage(r.exc)
             /\ weather_data' = wd
             /\ UNCHANGED format_flag
        ELSE /\ raised' = "none"
             /\ message' = "shown"
             /\ weather_data' = r.value
             /\ format_flag' = FormatFlag(color_today)

\* a script run starts: nothing of the previous run is on the page
NewRun ==
    /\ format_flag' = FALSE
    /\ now_date' = 0
    /\ response_place' = <<>>
    /\ features' = <<>>
    /\ calls' = <<>>
    /\ returned' = <<>>
    /\ weather_data' = <<>>
    /\ raised' = "none"

\* the toggle is switched: toggle_logic, its on_change callback, runs, and then
\* the script runs again with the button not pressed
Toggle ==
    /\ pc = "idle"
    /\ color_today' = Flip(color_today)
    /\ color_tomorrow' = Flip(color_tomorrow)
    /\ toggle_state' = (toggle_state = FALSE)
    /\ NewRun
    /\ message' = ""
    /\ UNCHANGED <<pc, location, for_predict, archive, parse_vars, format_vars>>

\* lines 81-94: the button is pressed; up to the first request
Press ==
    /\ pc = "idle"
    /\ \E loc \in Locations :
        /\ location' = loc
        /\ IF loc = NoSelection \/ Strip(loc) = ""
           THEN /\ message' = SelectMessage
                /\ pc' = "idle"
                /\ UNCHANGED for_predict
           ELSE /\ message' = ""
                /\ pc' = "current"
                /\ for_predict' = FetchFlag(color_today)
    /\ NewRun
    /\ UNCHANGED <<session_vars, archive, parse_vars, format_vars>>

\* lines 123-132: GET current.json and what follows up to the next request
CurrentCall ==
    /\ pc = "current"
    /\ \E answer \in CurrentAnswers, today \in NowDates :
        /\ calls' = Append(calls, [url |-> "current", dt |-> "", answer |-> answer])
        /\ LET r == AfterCurrent(answer, today)
           IN  IF r.exc # "none" THEN Fail(r.exc)
               ELSE /\ now_date' = r.value[1]
                    /\ response_place' = <<r.value[2], r.value[3]>>
                    /\ features' = <<>>
                    /\ pc' = "history"
                    /\ UNCHANGED <<location, for_predict, format_flag, returned,
                                   weather_data, raised, message>>
    /\ UNCHANGED <<session_vars, archive, parse_vars, format_vars>>

\* lines 133-141: the today path's single GET history.json, the return, and
\* main's lines 95-111
TodayHistoryCall ==
    /\ pc = "history"
    /\ ~for_predict
    /\ LET dt == Strftime_Y_m_d(now_date)
       IN  \E answer \in HistoryAnswers(archive, dt) :
            /\ calls' = Append(calls, [url |-> "history", dt |-> dt, answer |-> answer])
            /\ LET r == AfterTodayHistory(answer)
               IN  IF r.exc # "none" THEN Fail(r.exc)
                   ELSE /\ returned' = [payload |-> r.value,
                                        location |-> response_place[1],
                                        country |-> response_place[2],
                                        date |-> now_date]
                        /\ Show(r.value)
                        /\ pc' = "idle"
                        /\ features' = <<>>
                        /\ UNCHANGED <<location, for_predict, now_date, response_place>>
    /\ UNCHANGED <<session_vars, archive, parse_vars, format_vars>>

\* lines 166-176: one iteration of the loop (its index is the number of history
\* requests already made); the last one returns the matrix
PredictHistoryCall ==
    /\ pc = "history"
    /\ for_predict
    /\ Len(calls) - 1 < n_days
    /\ LET i == Len(calls) - 1
           dt == Strftime_Y_m_d(HistoryDate(now_date, i))
       IN  \E answer \in HistoryAnswers(archive, dt) :
            /\ calls' = Append(calls, [url |-> "history", dt |-> dt, answer |-> answer])
            /\ LET r == LoopBody(features, answer)
               IN  IF r.exc # "none" THEN Fail(r.exc)
                   ELSE IF i + 1 < n_days
                   THEN /\ features' = r.value
                        /\ UNCHANGED <<pc, location, for_predict, format_flag, now_date,
                                       response_place, returned, weather_data, raised,
                                       message>>
                   ELSE /\ returned' = [payload |-> r.value,
                                        location |-> response_place[1],
                                        country |-> response_place[2],
                                        date |-> PredictionDate(now_date)]
                        /\ features' = <<>>
                        /\ pc' = "predict"
                        /\ UNCHANGED <<location, for_predict, format_flag, now_date,
                                       response_place, weather_data, raised, message>>
    /\ UNCHANGED <<session_vars, archive, parse_vars, format_vars>>

\* line 94 and lines 95-111: POST /predict/ with the matrix, then the rendering
PredictCall ==
    /\ pc = "predict"
    /\ \E answer \in PredictAnswers :
        /\ calls' = Append(calls, [url |-> "predict", dt |-> "", answer |-> answer])
        /\ LET r == predict(answer)
           IN  IF r.exc # "none" THEN Fail(r.exc)
               ELSE /\ Show(r.value)
                    /\ pc' = "idle"
                    /\ UNCHANGED <<location, for_predict, now_date, response_place,
                                   features, returned>>
    /\ UNCHANGED <<session_vars, archive, parse_vars, format_vars>>

Next ==
    \/ Toggle
    \/ Press
    \/ CurrentCall
    \/ TodayHistoryCall
    \/ PredictHistoryCall
    \/ PredictCall

Spec == Init /\ [][Next]_vars

(***************************************************************************)
(* parse_history_response on its own, on every document of                 *)
(* HistoryResponses and both values of for_predict.                        *)
(***************************************************************************)
InitParse ==
    /\ response \in HistoryResponses
    /\ p_for_predict \in BOOLEAN
    /\ p_result = NotRun
    /\ color_today = "green"
    /\ color_tomorrow = "red"
    /\ toggle_state = FALSE
    /\ pc = "idle"
    /\ location = NoSelection
    /\ for_predict = FALSE
    /\ format_flag = FALSE
    /\ now_date = 0
    /\ response_place = <<>>
    /\ features = <<>>
    /\ calls = <<>>
    /\ returned = <<>>
    /\ weather_data = <<>>
    /\ raised = "none"
    /\ message = ""
    /\ archive = Archive(0, 0 - 1)
    /\ data = <<>>
    /\ f_for_predict = FALSE
    /\ f_result = NotRun

ParseCall ==
    /\ p_result = NotRun
    /\ p_result' = parse_history_response(response, p_for_predict)
    /\ UNCHANGED <<session_vars, press_vars, archive, format_vars, response, p_for_predict>>

NextParse == ParseCall

SpecParse == InitParse /\ [][NextParse]_vars

(***************************************************************************)
(* formated_weather_data on its own, on every call of FormatInputs.        *)
(***************************************************************************)
InitFormat ==
    /\ \E c \in FormatInputs :
        /\ data = c.data
        /\ f_for_predict = c.for_predict
    /\ f_result = NotRun
    /\ color_today = "green"
    /\ color_tomorrow = "red"
    /\ toggle_state = FALSE
    /\ pc = "idle"
    /\ location = NoSelection
    /\ for_predict = FALSE
    /\ format_flag = FALSE
    /\ now_date = 0
    /\ response_place = <<>>
    /\ features = <<>>
    /\ calls = <<>>
    /\ returned = <<>>
    /\ weather_data = <<>>
    /\ raised = "none"
    /\ message = ""
    /\ archive = Archive(0, 0 - 1)
    /\ response = <<>>
    /\ p_for_predict = FALSE
    /\ p_result = NotRun

FormatCall ==
    /\ f_result = NotRun
    /\ f_result' = formated_weather_data(data, f_for_predict)
    /\ UNCHANGED <<session_vars, press_vars, archive, parse_vars, data, f_for_predict>>

NextFormat == FormatCall

SpecFormat == InitFormat /\ [][NextFormat]_vars

(***************************************************************************)
(* Properties.                                                             *)
(***************************************************************************)
\* the positions of calls that hold a request to url
CallsTo(url) == {j \in 1..Len(calls) : calls[j].url = url}

HasReturned == DOMAIN returned # {}

IsSuccessStatus(status_code) == 200 <= status_code /\ status_code < 300

\* the hourly entries of a series whose time of day is hh:mm
EntriesAt(hours, hh, mm) ==
    {j \in 1..Len(hours) : hours[j].time.hh = hh /\ hours[j].time.mm = mm}

\* the body is a history document with a day and a 09:00 and a 15:00 entry
IsCompleteHistoryBody(body) ==
    /\ body.is_json
    /\ "forecast" \in DOMAIN body.doc
    /\ LET hours == body.doc.forecast.forecastday[1].hour
       IN  EntriesAt(hours, 9, 0) # {} /\ EntriesAt(hours, 15, 0) # {}

\* the day the history document in body is about
MinTempOfDay(d) == Num(10) + 125 * (d % 16)

\* C1: in the prediction path, once seven history requests have been answered
\* with a 2xx status and a complete document each, get_weather_data has made
\* exactly those seven history requests, for today-6, ..., today in that
\* order, and has returned seven rows, row i built from the answer for
\* today-6+i, with today+1 as the date; and whenever the prediction path
\* returns, that is what it returns.
C1_SevenRowsOldestFirst ==
    LET allSucceeded ==
            /\ Len(calls) >= 1 + n_days
            /\ \A j \in 2..(1 + n_days) :
                /\ IsSuccessStatus(calls[j].answer.status_code)
                /\ IsCompleteHistoryBody(calls[j].answer.body)
    IN  for_predict /\ (allSucceeded \/ HasReturned) =>
            /\ HasReturned
            /\ CallsTo("history") = 2..(1 + n_days)
            /\ Len(returned.payload) = n_days
            /\ returned.date = now_date + 1
            /\ \A i \in 0..(n_days - 1) :
                /\ calls[i + 2].dt = Strftime_Y_m_d(now_date - 6 + i)
                /\ calls[i + 2].answer.body.doc.forecast.forecastday[1].date
                       = Strftime_Y_m_d(now_date - 6 + i)
                /\ returned.payload[i + 1][1] = MinTempOfDay(now_date - 6 + i)
                /\ returned.payload[i + 1] =
                       Row(parse_history_response(calls[i + 2].answer.body.doc,
                                                  TRUE).value).value

C1_Witness ==
    /\ for_predict
    /\ HasReturned
    /\ now_date = 61
    /\ \A j \in 2..8 : calls[j].answer.status_code = 200
    /\ calls[2].dt = "2024-02-25"
    /\ calls[6].dt = "2024-02-29"
    /\ calls[8].dt = "2024-03-02"
    /\ Len(returned.payload) = 7

\* the current-conditions answer carries a JSON document whose country is parsed
ParsedCountry(answer) ==
    IF /\ answer.body.is_json
       /\ "location" \in DOMAIN answer.body.doc
       /\ answer.body.doc.location.tz_id \in KnownTimezones
    THEN answer.body.doc.location.country
    ELSE "<not parsed>"

\* C2: a 400 from the current-conditions request or from any history request
\* ends the press with LocationNotFoundError, and so does a 2xx
\* current-conditions answer whose parsed country is not exactly "Australia",
\* for both values of for_predict; nothing is returned and no further request
\* is made.
C2_LocationNotFound ==
    \A j \in 1..Len(calls) :
        LET answer == calls[j].answer
            notFound ==
                \/ calls[j].url \in {"current", "history"} /\ answer.status_code = 400
                \/ /\ calls[j].url = "current"
                   /\ IsSuccessStatus(answer.status_code)
                   /\ ParsedCountry(answer) \notin {"Australia", "<not parsed>"}
        IN  notFound =>
                /\ j = Len(calls)
                /\ pc = "idle"
                /\ raised = "LocationNotFoundError"
                /\ message = LocationNotFoundMessage
                /\ ~HasReturned
                /\ DOMAIN weather_data = {}

C2_Witness ==
    /\ for_predict
    /\ Len(calls) = 1
    /\ calls[1].answer.status_code = 200
    /\ ParsedCountry(calls[1].answer) = "australia"
    /\ raised = "LocationNotFoundError"

FeatureKeys == {features_order[j] : j \in 1..Len(features_order)}

DisplayKeys == {feature_names_encoder[k] : k \in FeatureKeys} \cup ConditionFields

\* C4: whatever document parse_history_response returns a value for, the value
\* has exactly the keys of its variant: the 17 feature keys with
\* for_predict=True, the 17 display keys and text and icon with
\* for_predict=False, RainToday then being "Yes" or "No".
C4_ExactKeySet ==
    p_result.exc = "none" =>
        IF p_for_predict
        THEN DOMAIN p_result.value = FeatureKeys
        ELSE /\ DOMAIN p_result.value = DisplayKeys
             /\ p_result.value["RainToday"] \in {"Yes", "No"}

\* the history document of the today path's request
TodayDoc == calls[2].answer.body.doc

\* C5: rain_today is 1 exactly when the day's totalprecip_mm is above 0 (0 and
\* negative amounts give 0) in every row of the matrix; in the today path
\* RainToday is "Yes" exactly when totalprecip_mm is above 0, in the record
\* get_weather_data returns and in the record that is shown.
C5_RainTodayIffPositive ==
    /\ \A j \in 1..Len(features) :
        features[j][17] = (IF features[j][3] > 0 THEN Num(1) ELSE Num(0))
    /\ (for_predict /\ HasReturned) =>
        \A j \in 1..Len(returned.payload) :
            LET precip ==
                    calls[j + 1].answer.body.doc.forecast.forecastday[1].day.totalprecip_mm
            IN  /\ returned.payload[j][3] = precip
                /\ returned.payload[j][17] = (IF precip > 0 THEN Num(1) ELSE Num(0))
    /\ (~for_predict /\ HasReturned) =>
        LET precip == TodayDoc.forecast.forecastday[1].day.totalprecip_mm
        IN  /\ returned.payload["RainToday"] = (IF precip > 0 THEN "Yes" ELSE "No")
            /\ message = "shown" =>
                weather_data["RainToday"] = (IF precip > 0 THEN "Yes" ELSE "No")

C5_Witness ==
    /\ ~for_predict
    /\ HasReturned
    /\ message = "shown"
    /\ TodayDoc.forecast.forecastday[1].day.totalprecip_mm = 0 - 500
    /\ returned.payload["RainToday"] = "No"
    /\ weather_data["RainToday"] = "No"

\* every amount from 0.00 to 13.00 in hundredths, as formatted
NonNegativeAmounts == {FormatFixed(10 * n, 2) \o "mm" : n \in 0..1300}

\* C6: the Rainfall of the record formated_weather_data returns is never a
\* negative amount: a Rainfall below 0 comes out as "0.00mm" (-0.5 included),
\* a Rainfall of 0 or more as itself with 2 decimals and "mm", for both values
\* of for_predict.
C6_RainfallNeverNegative ==
    f_result.exc = "none" =>
        /\ f_result.value["Rainfall"] \in NonNegativeAmounts
        /\ data["Rainfall"] < 0 => f_result.value["Rainfall"] = "0.00mm"
        /\ data["Rainfall"] >= 0 =>
            f_result.value["Rainfall"] = FormatFixed(data["Rainfall"], 2) \o "mm"
        /\ data["Rainfall"] = 1250 => f_result.value["Rainfall"] = "1.25mm"

C6_Witness ==
    /\ f_result.exc = "none"
    /\ f_for_predict
    /\ data["Rainfall"] = 0 - 500
    /\ f_result.value["Rainfall"] = "0.00mm"

\* the answer to a history request failed: an error status, or a body that is
\* no complete history document
HistoryCallFailed(answer) ==
    answer.status_code >= 400 \/ ~IsCompleteHistoryBody(answer.body)

\* C7: in the prediction path the history requests are made one after the other
\* and the first failed one ends the press: it is the last request, no date is
\* asked twice, the press ends in an error, and no row of the days already
\* fetched is returned or kept.
C7_FirstFailureAborts ==
    for_predict =>
        /\ \A j \in CallsTo("history") :
            HistoryCallFailed(calls[j].answer) =>
                /\ j = Len(calls)
                /\ pc = "idle"
                /\ raised # "none"
                /\ message \in {LocationNotFoundMessage, UnavailableMessage}
                /\ ~HasReturned
                /\ features = <<>>
                /\ DOMAIN weather_data = {}
        /\ \A j, k \in CallsTo("history") : j # k => calls[j].dt # calls[k].dt
        /\ CallsTo("history") \subseteq 2..(1 + n_days)
        /\ pc = "history" => Len(features) = Len(calls) - 1

C7_Witness ==
    /\ for_predict
    /\ Len(calls) = 5
    /\ \A j \in 2..4 : ~HistoryCallFailed(calls[j].answer)
    /\ calls[5].answer.status_code = 500
    /\ raised = "HTTPError"
    /\ ~HasReturned

\* "0%" to "100%"
PercentStrings == {NatStr(n) \o "%" : n \in 0..100}

\* C8: the record formated_weather_data returns, as shown by main, holds no
\* text and no icon; in the today path they were in the record handed in and
\* the four humidity and cloud fields are percentages without decimals; in the
\* prediction path RainToday is a percentage and no humidity, cloud, text or
\* icon field is in the record.
C8_NoConditionFields ==
    message = "shown" =>
        /\ DOMAIN weather_data \cap ConditionFields = {}
        /\ ~format_flag =>
            /\ ConditionFields \subseteq DOMAIN returned.payload
            /\ DOMAIN weather_data = DOMAIN returned.payload \ ConditionFields
            /\ \A k \in PercentFields :
                /\ k \in DOMAIN weather_data
                /\ weather_data[k] \in PercentStrings
                /\ weather_data[k] = NatStr(returned.payload[k] \div 1000) \o "%"
        /\ format_flag =>
            /\ weather_data["RainToday"] \in PercentStrings
            /\ DOMAIN weather_data \cap (PercentFields \cup ConditionFields) = {}
            /\ DOMAIN weather_data = DOMAIN calls[Len(calls)].answer.body.doc

C8_Witness ==
    /\ message = "shown"
    /\ ~format_flag
    /\ ConditionFields \subseteq DOMAIN returned.payload
    /\ weather_data["Humidity9am"] = "52%"
    /\ DOMAIN weather_data \cap ConditionFields = {}

\* the key of an hourly feature of the entry at 09:00 ("09AM") or 15:00 ("03PM")
ParsedKey(feature, suffix, forPredict) ==
    IF forPredict THEN feature \o suffix ELSE feature_names_encoder[feature \o suffix]

Last(S) == CHOOSE j \in S : \A k \in S : k <= j

\* C9: of a parsed document, the fields suffixed 09AM (03PM) are those of the
\* last hourly entry whose time of day is exactly 09:00 (15:00), and are
\* absent when there is none; no other entry gives a field; max_gust is the
\* largest gust_kph of all entries.
C9_NineAndThreeOnly ==
    p_result.exc = "none" =>
        LET hours == response.forecast.forecastday[1].hour
            value == p_result.value
            taken(suffix, hh) ==
                LET at == EntriesAt(hours, hh, 0)
                IN  \A f \in hour_feature_names :
                        IF at = {}
                        THEN ParsedKey(f, suffix, p_for_predict) \notin DOMAIN value
                        ELSE /\ ParsedKey(f, suffix, p_for_predict) \in DOMAIN value
                             /\ value[ParsedKey(f, suffix, p_for_predict)]
                                    = hours[Last(at)][f]
            gustKey == IF p_for_predict THEN "max_gust" ELSE "WindGustSpeed"
        IN  /\ taken("09AM", 9)
            /\ taken("03PM", 15)
            /\ DOMAIN value \subseteq (IF p_for_predict THEN FeatureKeys ELSE DisplayKeys)
            /\ \A j \in 1..Len(hours) : value[gustKey] >= hours[j].gust_kph
            /\ \E j \in 1..Len(hours) : value[gustKey] = hours[j].gust_kph

C9_Witness ==
    /\ p_result.exc = "none"
    /\ p_for_predict
    /\ response.forecast.forecastday[1].hour = <<Hour(9, 0, 2), Hour(9, 30, 7), Hour(9, 0, 3)>>
    /\ p_result.value["wind_kph09AM"] = Hour(9, 0, 3).wind_kph
    /\ p_result.value["max_gust"] = Hour(9, 30, 7).gust_kph

\* C10: the two colours are always opposite colours among red and green,
\* toggle_state is true exactly when color_tomorrow is green, a press takes
\* the prediction path exactly when toggle_state is true, and the flag the
\* record is formatted with is the flag it was fetched with.
C10_ToggleInvariant ==
    /\ color_today \in {"red", "green"}
    /\ color_tomorrow \in {"red", "green"}
    /\ color_today # color_tomorrow
    /\ toggle_state = (color_tomorrow = "green")
    /\ (pc # "idle" \/ calls # <<>>) => for_predict = toggle_state
    /\ message = "shown" => format_flag = for_predict
    /\ CallsTo("predict") # {} => toggle_state /\ for_predict
    /\ (message = "shown" /\ toggle_state) => CallsTo("predict") # {}

C10_Witness ==
    /\ toggle_state
    /\ color_today = "red"
    /\ message = "shown"
    /\ format_flag
    /\ for_predict
    /\ CallsTo("predict") = {9}

====
